---- MODULE Spec2Model ----
(***************************************************************************)
(* A model of peerbrowser: the peer endpoint (browser-client), its         *)
(* transfer records (transfer_classes.py), the tracker index               *)
(* (tracker-server/app.py) and the rendezvous server                       *)
(* (matchmaker-server/matchmaker.py).                                      *)
(*                                                                         *)
(* Python values are rendered as follows.  An Optional value (the result   *)
(* of dict.get, a field that may be None) is a set: {} is None and {x} is  *)
(* the value x.  bytes and str are sequences of byte / character codes.    *)
(* A function that may raise returns Ok(value) or Raise(exception name).    *)
(***************************************************************************)
EXTENDS Integers, Sequences, FiniteSets, TLC

VARIABLES
    \* ---- peer endpoints (holepunch_server.py, transfer_classes.py)
    peer_addr,           \* UDPClient.peer_addr, per endpoint ("none" is None)
    punch_alive,         \* UDPClient.punch_alive (threading.Event), per endpoint
    punch_thread,        \* the _punch_loop thread: "none" or its position
    peer_lock,           \* UDPClient.peer_lock: "free" or the thread holding it
    listener,            \* the _listen_loop thread: "running", "dead" (an exception
                         \* escaped), "blocked", "exited" (the loop ended)
    main,                \* the initiator thread: "ready" or "blocked"
    inbound_transfers,   \* per endpoint: nonce -> InboundTransfer
    outbound_transfers,  \* per endpoint: nonce -> OutboundTransfer
    media,               \* per endpoint: the file under MEDIA_DOWNLOAD_DIR ({} absent)
    cwdfile,             \* per endpoint: the file of the same name under the cwd
    net,                 \* the datagrams the endpoints' code sent that are in flight
    sent,                \* history: every datagram an endpoint's code has sent
    handled,             \* history: per endpoint, the peer messages dispatched
    written,             \* history: per endpoint, the files written (a sequence)
    lost,                \* history: whether the network has dropped a datagram
    \* ---- chunking round trip (transfer_classes.py)
    cpc, cfile, csize, cout, cin, cbytes,
    \* ---- tracker (tracker-server/app.py)
    file_ips, ip_files, lastseen, tnow, lastOp, repeated,
    treqs,               \* the requests being served: per threadpool worker the handler
                         \* it runs, its arguments and the line it is at (0: none)
    \* ---- rendezvous (matchmaker-server/matchmaker.py)
    clients, packet_queue, mm_out, mm_pkt, mm_now,
    \* ---- retransmit eligibility (transfer_classes.py): the transfer asked, the
    \* seq and time of the last should_retransmit call and its result ({} none)
    rt, rseq, rnow, rres,
    \* ---- cooperative stop (holepunch_server.py)
    alive,               \* UDPClient.alive (threading.Event), per endpoint
    stop_pc,             \* the thread in stop(), per endpoint: how far it got
    punch_peer,          \* the local `peer` of _punch_loop, per endpoint
    \* ---- fetch loop (client.py, tracker_api.py)
    cl_pc,               \* download_page: "idle", "raised" or "returned"
    cl_file,             \* whether MEDIA_DOWNLOAD_DIR/filepath is a file at the requester
    cl_holders,          \* history: the tracker's holders of the file at the call
    cl_reqs,             \* history: the requests of download_page the tracker served
    cl_att               \* the attempt of the loop body (client.py 35-38): the candidate,
                         \* the line reached, the rendezvous server's reply in flight, and
                         \* history: the address it introduced, where the request went

peerVars == <<peer_addr, punch_alive, punch_thread, peer_lock, listener, main, inbound_transfers,
              outbound_transfers, media, cwdfile, net, sent, handled, written, lost>>
chunkVars == <<cpc, cfile, csize, cout, cin, cbytes>>
trackerVars == <<file_ips, ip_files, lastseen, tnow, lastOp, repeated, treqs>>
mmVars == <<clients, packet_queue, mm_out, mm_pkt, mm_now>>
retxVars == <<rt, rseq, rnow, rres>>
stopVars == <<alive, stop_pc, punch_peer>>
clientVars == <<cl_pc, cl_file, cl_holders, cl_reqs, cl_att>>
restVars == <<retxVars, stopVars, clientVars>>
vars == <<peerVars, chunkVars, trackerVars, mmVars, retxVars, stopVars, clientVars>>

----------------------------------------------------------------------------
(* Python values *)

None == {}
Some(x) == {x}
TheVal(o) == CHOOSE x \in o : TRUE
Ok(v) == [ok |-> TRUE, val |-> v]
Raise(name) == [ok |-> FALSE, exc |-> name]
IsRaise(r) == ~r.ok

\* dict.get(key): None when the key is absent
Get(request, key) == IF key \in DOMAIN request THEN Some(request[key]) ELSE None

\* dict[key] = value on a dict rendered as a function
DictSet(d, k, v) == [x \in DOMAIN d \cup {k} |-> IF x = k THEN v ELSE d[x]]
DictDel(d, k) == [x \in DOMAIN d \ {k} |-> d[x]]
EmptyDict == [x \in {} |-> 0]

----------------------------------------------------------------------------
(* bytes *)

\* the bytes that bytes.strip() removes: \t \n \v \f \r and space
Whitespace == {9, 10, 11, 12, 13, 32}

RECURSIVE LStrip(_)
LStrip(b) == IF b # <<>> /\ Head(b) \in Whitespace THEN LStrip(Tail(b)) ELSE b

RECURSIVE RStrip(_)
RStrip(b) ==
    IF b # <<>> /\ b[Len(b)] \in Whitespace THEN RStrip(SubSeq(b, 1, Len(b) - 1)) ELSE b

Strip(b) == RStrip(LStrip(b))

\* hashlib.md5(...).hexdigest(): a digest that tells any two contents apart
generate_hash(content) == [md5 |-> content]

\* str.hex / bytes.fromhex over character codes '0'..'9' and 'a'..'f'
HexDigit(n) == IF n < 10 THEN 48 + n ELSE 87 + n
HexValue(c) == IF c \in 48..57 THEN c - 48 ELSE IF c \in 97..102 THEN c - 87 ELSE -1

RECURSIVE ToHex(_)
ToHex(b) ==
    IF b = <<>> THEN <<>>
    ELSE <<HexDigit(Head(b) \div 16), HexDigit(Head(b) % 16)>> \o ToHex(Tail(b))

RECURSIVE HexPairs(_)
HexPairs(s) ==
    IF s = <<>> THEN <<>>
    ELSE <<16 * HexValue(s[1]) + HexValue(s[2])>> \o HexPairs(SubSeq(s, 3, Len(s)))

\* bytes.fromhex(o) of an Optional str: TypeError on None, ValueError on a bad string
FromHex(o) ==
    IF o = None THEN Raise("TypeError")
    ELSE LET s == TheVal(o) IN
         IF Len(s) % 2 # 0 \/ \E i \in 1..Len(s) : HexValue(s[i]) < 0
         THEN Raise("ValueError")
         ELSE Ok(HexPairs(s))

----------------------------------------------------------------------------
(* transfer_classes.py: OutboundTransfer *)

\* bounds of the chunking inputs
MaxFileLen == 3
MaxChunkSize == 4

CeilDiv(a, b) == (a + b - 1) \div b
Min(a, b) == IF a < b THEN a ELSE b

\* OutboundTransfer._generate_chunks: read chunk_size bytes at a time until the
\* read is empty, then strip() the last chunk; chunks[-1] of an empty file raises
_generate_chunks(content, chunk_size) ==
    LET total == CeilDiv(Len(content), chunk_size)
        read == [seq \in 0..(total - 1) |->
                   SubSeq(content, seq * chunk_size + 1,
                          Min((seq + 1) * chunk_size, Len(content)))]
    IN IF total = 0 THEN Raise("KeyError")
       ELSE Ok([chunks |-> [seq \in 0..(total - 1) |->
                             IF seq = total - 1 THEN Strip(read[seq]) ELSE read[seq]],
                total_chunks |-> total])

\* OutboundTransfer(...): the dataclass defaults, then __post_init__; opening the
\* file raises when it is absent
OutboundTransfer(nonce, filepath, hash, chunk_size, file) ==
    IF file = None THEN Raise("FileNotFoundError")
    ELSE LET g == _generate_chunks(TheVal(file), chunk_size)
         IN IF IsRaise(g) THEN g
            ELSE Ok([nonce |-> nonce, filepath |-> filepath, hash |-> hash,
                     chunk_size |-> chunk_size, chunks |-> g.val.chunks,
                     total_chunks |-> g.val.total_chunks, acks |-> {}, base |-> 0,
                     last_sent |-> EmptyDict, retries |-> EmptyDict,
                     state |-> "sending"])

RECURSIVE AdvanceBase(_, _)
AdvanceBase(base, acks) == IF base \in acks THEN AdvanceBase(base + 1, acks) ELSE base

\* OutboundTransfer.mark_acked
mark_acked(t, seq) ==
    [t EXCEPT !.acks = t.acks \cup {seq}, !.base = AdvanceBase(t.base, t.acks \cup {seq})]

CHUNK_RETRANSMIT_TIMEOUT == 1
CHUNK_MAX_RETRIES == 6

\* dict.get(key, default)
GetOr(d, key, default) == IF key \in DOMAIN d THEN d[key] ELSE default

\* OutboundTransfer.should_retransmit; it reads the transfer and writes nothing
should_retransmit(t, seq, now, timeout, max_retries) ==
    IF seq \in t.acks THEN FALSE
    ELSE LET last == GetOr(t.last_sent, seq, 0) IN
         IF now - last > timeout
         THEN IF GetOr(t.retries, seq, 0) >= max_retries THEN FALSE ELSE TRUE
         ELSE FALSE

----------------------------------------------------------------------------
(* transfer_classes.py: InboundTransfer *)

InboundTransfer(nonce, hash, filename) ==
    [nonce |-> nonce, hash |-> hash, expected_chunks |-> None, chunks |-> EmptyDict,
     received |-> {}, filename |-> filename, state |-> "receiving"]

\* a Python truth test of an Optional bool (None and False are falsy)
Truthy(o) == o = Some(TRUE)

\* InboundTransfer.add_chunk
add_chunk(t, seq, data, is_last) ==
    IF t.state # "receiving" THEN t
    ELSE [t EXCEPT !.chunks = DictSet(t.chunks, seq, data),
                   !.received = t.received \cup {seq},
                   !.expected_chunks = IF Truthy(is_last) THEN Some(seq + 1)
                                       ELSE t.expected_chunks]

\* InboundTransfer.has_all_chunks
has_all_chunks(t) ==
    IF t.expected_chunks = None THEN FALSE
    ELSE Cardinality(t.received) >= TheVal(t.expected_chunks)

\* InboundTransfer.is_complete
is_complete(t) == t.state = "done"

RECURSIVE JoinParts(_, _, _)
JoinParts(chunks, i, n) ==
    IF i >= n THEN Ok(<<>>)
    ELSE IF i \notin DOMAIN chunks THEN Raise("KeyError")
    ELSE LET part == FromHex(chunks[i]) IN
         IF IsRaise(part) THEN part
         ELSE LET rest == JoinParts(chunks, i + 1, n) IN
              IF IsRaise(rest) THEN rest ELSE Ok(part.val \o rest.val)

\* InboundTransfer.assemble
assemble(t) ==
    IF ~is_complete(t) THEN Raise("RuntimeError")
    ELSE JoinParts(t.chunks, 0, TheVal(t.expected_chunks))

\* InboundTransfer.validate_hash
validate_hash(t, data) == Some(generate_hash(data)) = t.hash

----------------------------------------------------------------------------
(* Chunking round trip: a holder opens an outbound transfer for a file, and a  *)
(* requester stores every chunk in seq order and assembles.                    *)

\* the file contents tried: bytes 'A', ' ' and '\n', and the spec's ABCDEFGHIJ
FileBytes == {65, 32, 10}
RECURSIVE BytesUpTo(_)
BytesUpTo(n) ==
    IF n = 0 THEN {<<>>}
    ELSE LET shorter == BytesUpTo(n - 1)
         IN shorter \cup {Append(b, c) : b \in {x \in shorter : Len(x) = n - 1},
                                         c \in FileBytes}
ABCDEFGHIJ == <<65, 66, 67, 68, 69, 70, 71, 72, 73, 74>>
Contents == BytesUpTo(MaxFileLen) \cup {ABCDEFGHIJ}

RECURSIVE ConcatChunks(_, _, _)
ConcatChunks(chunks, i, n) ==
    IF i >= n THEN <<>> ELSE chunks[i] \o ConcatChunks(chunks, i + 1, n)

\* the requester's record after add_chunk of every chunk of `out` in seq order,
\* the last one flagged is_last
RECURSIVE StoreInOrder(_, _, _)
StoreInOrder(t, out, i) ==
    IF i >= out.total_chunks THEN t
    ELSE StoreInOrder(add_chunk(t, i, Some(out.chunks[i]),
                                Some(i = out.total_chunks - 1)), out, i + 1)

ChunkIdle ==
    /\ cpc = "idle" /\ cfile = <<>> /\ csize = 1
    /\ cout = Raise("") /\ cin = InboundTransfer("", None, None) /\ cbytes = Raise("")

ChunkInit ==
    /\ cpc = "new"
    /\ cfile \in Contents
    /\ csize \in 1..MaxChunkSize
    /\ cout = Raise("") /\ cin = InboundTransfer("", None, None) /\ cbytes = Raise("")

\* create_outbound(nonce, filepath, hash, chunk_size)
ChunkCreateOutbound ==
    /\ cpc = "new"
    /\ cout' = OutboundTransfer("n1", "f", generate_hash(cfile), csize, Some(cfile))
    /\ cpc' = "created"
    /\ UNCHANGED <<cfile, csize, cin, cbytes>>

\* create_inbound, add_chunk for seq 0..total_chunks-1, then assemble
ChunkAssemble ==
    /\ cpc = "created"
    /\ ~IsRaise(cout)
    /\ cin' = StoreInOrder(InboundTransfer("n1", Some(cout.val.hash), Some("f")),
                           cout.val, 0)
    /\ cbytes' = assemble(cin')
    /\ cpc' = "assembled"
    /\ UNCHANGED <<cfile, csize, cout>>

\* the seq values a sender may put into a chunk: 0..MaxInSeq
MaxInSeq == 4

\* add_chunk on a fresh inbound transfer with whatever seq and is_last arrive
InboundAddChunk(seq, is_last) ==
    /\ cin' = add_chunk(cin, seq, ToHex(<<65>>), is_last)
    /\ UNCHANGED <<cpc, cfile, csize, cout, cbytes>>

NextInbound ==
    \E seq \in 0..MaxInSeq, is_last \in {None, Some(FALSE), Some(TRUE)} :
        InboundAddChunk(seq, is_last) /\ UNCHANGED <<peerVars, trackerVars, mmVars, restVars>>

NextChunks ==
    \/ ChunkCreateOutbound /\ UNCHANGED <<peerVars, trackerVars, mmVars, restVars>>
    \/ ChunkAssemble /\ UNCHANGED <<peerVars, trackerVars, mmVars, restVars>>

----------------------------------------------------------------------------
(* tracker-server/app.py.  The Redis store r holds a set per key file:<name>, *)
(* a set per key ip:<ip> and the hash peer:lastseen; the registry is the      *)
(* record [file_ips, ip_files, lastseen] of the three.                        *)

TIps == {"ip1", "ip2"}
TFiles == {"f1", "f2"}
\* bound of the tracker's clock (datetime.utcnow())
MaxTime == 2

Registry == [file_ips |-> file_ips, ip_files |-> ip_files, lastseen |-> lastseen]

\* the mutant: HSETNX, the first timestamp is kept
add_mapping_hsetnx(reg, ip, filename, now) ==
    [file_ips |-> [reg.file_ips EXCEPT ![filename] = @ \cup {ip}],
     ip_files |-> [reg.ip_files EXCEPT ![ip] = @ \cup {filename}],
     lastseen |-> [reg.lastseen EXCEPT ![ip] = IF @ = None THEN Some(now) ELSE @]]

\* add_mapping: sadd file:<filename> ip; sadd ip:<ip> filename; hset peer:lastseen
add_mapping(reg, ip, filename, now) ==
    [file_ips |-> [reg.file_ips EXCEPT ![filename] = @ \cup {ip}],
     ip_files |-> [reg.ip_files EXCEPT ![ip] = @ \cup {filename}],
     lastseen |-> [reg.lastseen EXCEPT ![ip] = Some(now)]]

\* the mutant: the reverse map is left alone
remove_mapping_forward_only(reg, ip, filename) ==
    [reg EXCEPT !.file_ips = [reg.file_ips EXCEPT ![filename] = @ \ {ip}]]

\* remove_mapping: srem file:<filename> ip; srem ip:<ip> filename
remove_mapping(reg, ip, filename) ==
    [reg EXCEPT !.file_ips = [reg.file_ips EXCEPT ![filename] = @ \ {ip}],
                !.ip_files = [reg.ip_files EXCEPT ![ip] = @ \ {filename}]]

\* remove_peer: srem file:<f> ip for every f of ip:<ip>; delete ip:<ip>; hdel
remove_peer(reg, ip) ==
    [file_ips |-> [f \in TFiles |-> IF f \in reg.ip_files[ip]
                                     THEN reg.file_ips[f] \ {ip} ELSE reg.file_ips[f]],
     ip_files |-> [reg.ip_files EXCEPT ![ip] = {}],
     lastseen |-> [reg.lastseen EXCEPT ![ip] = None]]

NoOp == [op |-> "none", ip |-> "", filename |-> ""]

\* the threadpool workers that serve requests at the same time
MaxInFlight == 2
TSlots == 1..MaxInFlight
NoRequest == [op |-> "none", ip |-> "", filename |-> "", pc |-> 0, files |-> {}]
\* the line a handler's first store command is at
FirstLine(op) ==
    CASE op = "add" -> 31
      [] op = "remove" -> 38
      [] op = "peer_offline" -> 44
\* the loop of remove_peer goes on while files are left to visit
LoopOrDelete(files) == IF files = {} THEN 47 ELSE 45

\* one store command of a handler: the command at line req.pc, and the line the
\* handler is at next; f is the file the loop of remove_peer visits at 45-46
redis_command(reg, req, f, now) ==
    CASE req.pc = 31 ->
           [reg |-> [reg EXCEPT !.file_ips[req.filename] = @ \cup {req.ip}],
            req |-> [req EXCEPT !.pc = 32]]
      [] req.pc = 32 ->
           [reg |-> [reg EXCEPT !.ip_files[req.ip] = @ \cup {req.filename}],
            req |-> [req EXCEPT !.pc = 33]]
      [] req.pc = 33 ->
           [reg |-> [reg EXCEPT !.lastseen[req.ip] = Some(now)],
            req |-> NoRequest]
      [] req.pc = 38 ->
           [reg |-> [reg EXCEPT !.file_ips[req.filename] = @ \ {req.ip}],
            req |-> [req EXCEPT !.pc = 39]]
      [] req.pc = 39 ->
           [reg |-> [reg EXCEPT !.ip_files[req.ip] = @ \ {req.filename}],
            req |-> NoRequest]
      [] req.pc = 44 ->
           [reg |-> reg,
            req |-> [req EXCEPT !.files = reg.ip_files[req.ip],
                                !.pc = LoopOrDelete(reg.ip_files[req.ip])]]
      [] req.pc = 45 ->
           [reg |-> [reg EXCEPT !.file_ips[f] = @ \ {req.ip}],
            req |-> [req EXCEPT !.files = @ \ {f}, !.pc = LoopOrDelete(req.files \ {f})]]
      [] req.pc = 47 ->
           [reg |-> [reg EXCEPT !.ip_files[req.ip] = {}],
            req |-> [req EXCEPT !.pc = 48]]
      [] req.pc = 48 ->
           [reg |-> [reg EXCEPT !.lastseen[req.ip] = None],
            req |-> NoRequest]

TrackerInit ==
    /\ file_ips = [f \in TFiles |-> {}]
    /\ ip_files = [ip \in TIps |-> {}]
    /\ lastseen = [ip \in TIps |-> None]
    /\ tnow = 0
    /\ lastOp = NoOp
    /\ repeated = FALSE
    /\ treqs = [s \in TSlots |-> NoRequest]

SetRegistry(reg, op) ==
    /\ file_ips' = reg.file_ips
    /\ ip_files' = reg.ip_files
    /\ lastseen' = reg.lastseen
    /\ lastOp' = op
    /\ repeated' = (op = lastOp)
    /\ UNCHANGED <<tnow, treqs>>

\* POST /add?filename=... from the client ip
TrackerAdd(ip, filename) ==
    SetRegistry(add_mapping(Registry, ip, filename, tnow),
                [op |-> "add", ip |-> ip, filename |-> filename])

\* POST /remove?ip=...&filename=...
TrackerRemove(ip, filename) ==
    SetRegistry(remove_mapping(Registry, ip, filename),
                [op |-> "remove", ip |-> ip, filename |-> filename])

\* POST /peer_offline?ip=...
TrackerPeerOffline(ip) ==
    SetRegistry(remove_peer(Registry, ip),
                [op |-> "peer_offline", ip |-> ip, filename |-> ""])

\* time passes between two requests
TrackerTick ==
    /\ tnow < MaxTime
    /\ tnow' = tnow + 1
    /\ UNCHANGED <<file_ips, ip_files, lastseen, lastOp, repeated, treqs>>

NextTracker ==
    \/ \E ip \in TIps, f \in TFiles :
          TrackerAdd(ip, f) /\ UNCHANGED <<peerVars, chunkVars, mmVars, restVars>>
    \/ \E ip \in TIps, f \in TFiles :
          TrackerRemove(ip, f) /\ UNCHANGED <<peerVars, chunkVars, mmVars, restVars>>
    \/ \E ip \in TIps : TrackerPeerOffline(ip) /\ UNCHANGED <<peerVars, chunkVars, mmVars, restVars>>
    \/ TrackerTick /\ UNCHANGED <<peerVars, chunkVars, mmVars, restVars>>

\* requests about one ip served at the same time, their store commands interleaved
ConcIp == "ip1"

\* a worker takes a request
TrackerBegin(s, op, filename) ==
    /\ treqs[s] = NoRequest
    /\ treqs' = [treqs EXCEPT ![s] = [op |-> op, ip |-> ConcIp, filename |-> filename,
                                      pc |-> FirstLine(op), files |-> {}]]
    /\ UNCHANGED <<file_ips, ip_files, lastseen, tnow, lastOp, repeated>>

\* a worker issues its handler's next store command
TrackerCommand(s) ==
    /\ treqs[s] # NoRequest
    /\ \E f \in (IF treqs[s].pc = 45 THEN treqs[s].files ELSE {""}) :
          LET r == redis_command(Registry, treqs[s], f, tnow)
          IN /\ file_ips' = r.reg.file_ips
             /\ ip_files' = r.reg.ip_files
             /\ lastseen' = r.reg.lastseen
             /\ treqs' = [treqs EXCEPT ![s] = r.req]
    /\ UNCHANGED <<tnow, lastOp, repeated>>

NextTrackerConc ==
    \/ \E s \in TSlots, f \in TFiles :
          TrackerBegin(s, "add", f) /\ UNCHANGED <<peerVars, chunkVars, mmVars, restVars>>
    \/ \E s \in TSlots, f \in TFiles :
          TrackerBegin(s, "remove", f) /\ UNCHANGED <<peerVars, chunkVars, mmVars, restVars>>
    \/ \E s \in TSlots :
          TrackerBegin(s, "peer_offline", "") /\ UNCHANGED <<peerVars, chunkVars, mmVars, restVars>>
    \/ \E s \in TSlots :
          TrackerCommand(s) /\ UNCHANGED <<peerVars, chunkVars, mmVars, restVars>>

----------------------------------------------------------------------------
(* matchmaker-server/matchmaker.py.  An address is <<ip, port>>; clients maps  *)
(* an ip to Some([addr, last_seen]) or None; a datagram is [data, addr] with   *)
(* addr the observed source.                                                   *)

MIps == {"ip1", "ip2"}
MPorts == {1, 2}
\* ip1 is seen behind two ports (a NAT rebinding), ip2 behind one
MAddrs == {a \in MIps \X MPorts : a[1] = "ip1" \/ a[2] = 1}
NoAddr == <<"", 0>>

CLIENT_TIMEOUT == 120
\* bounds: the length of packet_queue and the number of clock steps
MaxQueue == 1
MaxTicks == 1
\* seconds per clock step
TickSeconds == 130

\* the datagram payloads tried: bytes that are not JSON, JSON that is no object,
\* and objects with and without the known types and fields (a register may carry
\* fields the server does not read)
MData ==
    {[json |-> "garbage", type |-> None, target_ip |-> None],
     [json |-> "nonobject", type |-> None, target_ip |-> None],
     [json |-> "object", type |-> Some("register"), target_ip |-> None],
     [json |-> "object", type |-> Some("connect"), target_ip |-> None],
     [json |-> "object", type |-> Some("register"), target_ip |-> Some("ip1")],
     [json |-> "object", type |-> None, target_ip |-> None]}
    \cup {[json |-> "object", type |-> Some("connect"), target_ip |-> Some(ip)] : ip \in MIps}

\* a message text is the sequence of the parts its f-string joins (<<>>: no text)
YourAddr(addr) == [type |-> "your_addr", peer |-> addr, text |-> <<>>]
PeerMsg(addr) == [type |-> "peer", peer |-> addr, text |-> <<>>]
ErrorMsg(text) == [type |-> "error", peer |-> NoAddr, text |-> text]
SendTo(msg, addr) == [to |-> addr, msg |-> msg]

\* a variant of register: a re-register of a known ip is not answered
register_silent_rereg(reg, addr, now) ==
    [clients |-> [reg EXCEPT ![addr[1]] = Some([addr |-> addr, last_seen |-> now])],
     out |-> IF reg[addr[1]] = None THEN <<SendTo(YourAddr(addr), addr)>> ELSE <<>>]

\* a variant of register: the entry of a known ip is kept as it is
register_keeps_first(reg, addr, now) ==
    [clients |-> IF reg[addr[1]] = None
                 THEN [reg EXCEPT ![addr[1]] = Some([addr |-> addr, last_seen |-> now])]
                 ELSE reg,
     out |-> <<SendTo(YourAddr(addr), addr)>>]

\* handle_packet lines 53-65: the register branch
register(reg, addr, now) ==
    [clients |-> [reg EXCEPT ![addr[1]] = Some([addr |-> addr, last_seen |-> now])],
     out |-> <<SendTo(YourAddr(addr), addr)>>]

\* a variant of connect_miss: the miss is not reported
connect_miss_silent(reg, target_ip, addr) == [clients |-> reg, out |-> <<>>]

\* handle_packet lines 79-86: no entry for target_ip
connect_miss(reg, target_ip, addr) ==
    [clients |-> reg,
     out |-> <<SendTo(ErrorMsg(<<"target ", target_ip, " not found or offline">>), addr)>>]

\* a variant of handle_packet: JSON that is no object is answered like an
\* unknown type, and an unknown type is not answered
handle_packet_type_of_anything(reg, data, addr, now) ==
    IF data.json = "garbage" THEN [clients |-> reg, out |-> <<>>]
    ELSE IF data.json = "nonobject"
    THEN [clients |-> reg, out |-> <<SendTo(ErrorMsg(<<"unknown message type">>), addr)>>]
    ELSE IF data.type = Some("register") THEN register(reg, addr, now)
    ELSE IF data.type = Some("connect") THEN
        IF data.target_ip = None THEN
            [clients |-> reg, out |-> <<SendTo(ErrorMsg(<<"missing target_ip">>), addr)>>]
        ELSE LET entry == reg[TheVal(data.target_ip)] IN
             IF entry = None THEN connect_miss(reg, TheVal(data.target_ip), addr)
             ELSE LET target_addr == TheVal(entry).addr IN
                  [clients |-> reg,
                   out |-> <<SendTo(PeerMsg(target_addr), addr),
                             SendTo(PeerMsg(addr), target_addr)>>]
    ELSE [clients |-> reg, out |-> <<>>]

\* handle_packet(data, addr, sock) on the registry `reg` at time `now`: the
\* registry it leaves and the datagrams it sends, in order.  An exception that
\* escapes (msg.get of a non-object) is caught by worker().
handle_packet(reg, data, addr, now) ==
    IF data.json = "garbage" THEN [clients |-> reg, out |-> <<>>]
    ELSE IF data.json = "nonobject" THEN [clients |-> reg, out |-> <<>>]
    ELSE IF data.type = Some("register") THEN register(reg, addr, now)
    ELSE IF data.type = Some("connect") THEN
        IF data.target_ip = None THEN
            [clients |-> reg, out |-> <<SendTo(ErrorMsg(<<"missing target_ip">>), addr)>>]
        ELSE LET entry == reg[TheVal(data.target_ip)] IN
             IF entry = None THEN connect_miss(reg, TheVal(data.target_ip), addr)
             ELSE LET target_addr == TheVal(entry).addr IN
                  [clients |-> reg,
                   out |-> <<SendTo(PeerMsg(target_addr), addr),
                             SendTo(PeerMsg(addr), target_addr)>>]
    ELSE [clients |-> reg, out |-> <<SendTo(ErrorMsg(<<"unknown message type">>), addr)>>]

\* a variant of cleanup: the pass also drops an entry seen exactly CLIENT_TIMEOUT ago
cleanup_at_threshold(reg, now) ==
    [ip \in MIps |->
        IF reg[ip] # None /\ TheVal(reg[ip]).last_seen <= now - CLIENT_TIMEOUT
        THEN None ELSE reg[ip]]

\* cleanup_loop: one pass
cleanup(reg, now) ==
    [ip \in MIps |->
        IF reg[ip] # None /\ TheVal(reg[ip]).last_seen < now - CLIENT_TIMEOUT
        THEN None ELSE reg[ip]]

\* a queued datagram; `was` is history: the address stored for the source ip
\* when recvfrom returned (NoAddr: none)
NoPacket ==
    [data |-> [json |-> "none", type |-> None, target_ip |-> None], addr |-> NoAddr,
     was |-> NoAddr]

MMInit ==
    /\ clients = [ip \in MIps |-> None]
    /\ packet_queue = <<>>
    /\ mm_out = <<>>
    /\ mm_pkt = NoPacket
    /\ mm_now = 0

\* run_server: one turn of the receive loop
\* backlog: how many datagrams the queue is let to hold
MMRecvFrom(data, addr, backlog) ==
    /\ Len(packet_queue) < backlog
    /\ clients' = IF clients[addr[1]] # None
                  THEN [clients EXCEPT ![addr[1]] = Some([addr |-> addr, last_seen |-> mm_now])]
                  ELSE clients
    /\ packet_queue' = Append(packet_queue,
                               [data |-> data, addr |-> addr,
                                was |-> IF clients[addr[1]] = None THEN NoAddr
                                        ELSE TheVal(clients[addr[1]]).addr])
    /\ UNCHANGED <<mm_out, mm_pkt, mm_now>>

MMReceive(data, addr) == MMRecvFrom(data, addr, MaxQueue)

\* worker: one turn of its loop
MMWorker ==
    /\ packet_queue # <<>>
    /\ LET item == Head(packet_queue)
           r == handle_packet(clients, item.data, item.addr, mm_now)
       IN /\ clients' = r.clients
          /\ mm_out' = r.out
          /\ mm_pkt' = item
    /\ packet_queue' = Tail(packet_queue)
    /\ UNCHANGED mm_now

\* cleanup_loop: one turn of its loop
MMCleanup ==
    /\ clients' = cleanup(clients, mm_now)
    /\ UNCHANGED <<packet_queue, mm_out, mm_pkt, mm_now>>

\* time passes, seconds at a time, up to a limit
MMSleep(seconds, limit) ==
    /\ mm_now < limit
    /\ mm_now' = mm_now + seconds
    /\ UNCHANGED <<clients, packet_queue, mm_out, mm_pkt>>

MMTick == MMSleep(TickSeconds, MaxTicks * TickSeconds)

NextMatchmaker ==
    \/ \E data \in MData, addr \in MAddrs :
          MMReceive(data, addr) /\ UNCHANGED <<peerVars, chunkVars, trackerVars, restVars>>
    \/ MMWorker /\ UNCHANGED <<peerVars, chunkVars, trackerVars, restVars>>
    \/ MMCleanup /\ UNCHANGED <<peerVars, chunkVars, trackerVars, restVars>>
    \/ MMTick /\ UNCHANGED <<peerVars, chunkVars, trackerVars, restVars>>

\* the rendezvous with clients that only register
RegisterData == [json |-> "object", type |-> Some("register"), target_ip |-> None]

\* the rendezvous with a backlog: run_server has received datagrams that the
\* worker has not yet taken off packet_queue
MaxBacklog == 2
GarbageData == [json |-> "garbage", type |-> None, target_ip |-> None]

NextBacklog ==
    \/ \E data \in {RegisterData, GarbageData}, addr \in MAddrs :
          MMRecvFrom(data, addr, MaxBacklog)
          /\ UNCHANGED <<peerVars, chunkVars, trackerVars, restVars>>
    \/ MMWorker /\ UNCHANGED <<peerVars, chunkVars, trackerVars, restVars>>

\* the sweeps of a run, and the time between two of them
MaxSweeps == 3
SweepSeconds == 60
MMSweepTick == MMSleep(SweepSeconds, MaxSweeps * SweepSeconds)

NextEviction ==
    \/ \E addr \in MAddrs :
          MMReceive(RegisterData, addr)
          /\ UNCHANGED <<peerVars, chunkVars, trackerVars, restVars>>
    \/ MMWorker /\ UNCHANGED <<peerVars, chunkVars, trackerVars, restVars>>
    \/ MMCleanup /\ UNCHANGED <<peerVars, chunkVars, trackerVars, restVars>>
    \/ MMSweepTick /\ UNCHANGED <<peerVars, chunkVars, trackerVars, restVars>>

----------------------------------------------------------------------------
(* browser-client/holepunch_server.py: two endpoints, A and B, each a         *)
(* UDPClient with its receive thread and its initiator thread.  An endpoint's *)
(* observed address is its name; a datagram is [src, dst, msg].               *)

Endpoints == {"A", "B"}
NoPeer == "none"
TheFile == "f"
TheNonce == "n1"
\* create_outbound's default chunk_size
DEFAULT_CHUNK_SIZE == 1200

\* the files a holder may publish: one chunk, and three chunks ending in '\n'
SmallFile == <<60, 62>>
BigFile == [i \in 1..(2 * DEFAULT_CHUNK_SIZE + 2) |->
              IF i = 2 * DEFAULT_CHUNK_SIZE + 2 THEN 10 ELSE 65]

(* the peer-to-peer messages *)
FileRequest(filepath, nonce) ==
    [type |-> "file_request", filepath |-> filepath, nonce |-> nonce]
FileResponse(hash, chunk, nonce, filename, single_chunk) ==
    [type |-> "file_response", hash |-> hash, chunk |-> chunk, nonce |-> nonce,
     filename |-> filename, single_chunk |-> single_chunk]
\* a file_response under the keys _handle_file_response reads
FileResponseAsRead(hash, chunk, nonce, filename, single_chunk) ==
    [type |-> "file_response", filehash |-> hash, chunk_data |-> chunk, nonce |-> nonce,
     filename |-> filename, single_chunk |-> single_chunk]
FileChunk(type, seq, nonce, data, is_last) ==
    [type |-> type, seq |-> seq, nonce |-> nonce, data |-> data, is_last |-> is_last]
FileAck(seq, nonce) == [type |-> "file_ack", seq |-> seq, nonce |-> nonce]
FileComplete(nonce) == [type |-> "file_complete", nonce |-> nonce]
Disconnect == [type |-> "disconnect"]
Punch == [type |-> "punch"]
\* datagrams that json.loads does not turn into a dict; their type field only
\* names the kind.  RawZero is the zero byte _punch_loop sends after each punch
\* (not decodable: parsed is None); JsonList is the JSON text [1] (parsed is a
\* non-empty list)
RawZero == [type |-> "raw"]
JsonList == [type |-> "json list"]
\* a JSON object of a type _listen_loop does not know
UnknownType == [type |-> "hello"]

\* the datagrams a peer address may send besides those the code sends
ForeignMsgs ==
    {FileRequest(TheFile, TheNonce), FileComplete(TheNonce), Disconnect,
     FileAck(0, TheNonce), FileAck(1, TheNonce),
     FileChunk("file_chunk", 1, TheNonce, ToHex(<<62>>), FALSE),
     FileChunk("file_done", 1, TheNonce, ToHex(<<62>>), TRUE)}
    \cup {FileResponse(generate_hash(SmallFile), ToHex(<<60>>), TheNonce, TheFile, sc) :
            sc \in BOOLEAN}
    \cup {FileResponseAsRead(generate_hash(c), ToHex(<<60>>), TheNonce, TheFile, TRUE) :
            c \in {<<60>>, SmallFile}}

(* one endpoint's state while a thread of it runs; out collects what it sends *)
EndpointState(e) ==
    [peer_addr |-> peer_addr[e], punch_alive |-> punch_alive[e],
     punch_thread |-> punch_thread[e],
     peer_lock |-> peer_lock[e], listener |-> listener[e], main |-> main[e],
     inbound |-> inbound_transfers[e], outbound |-> outbound_transfers[e],
     written |-> written[e], out |-> <<>>]

\* an exception escapes _listen_loop: the receive thread ends
Dies(st) == [st EXCEPT !.listener = "dead"]
\* the receive thread waits for peer_lock, which is never released
Blocks(st) == [st EXCEPT !.listener = "blocked"]
\* self.sock.sendto(json.dumps(msg).encode(), to)
Send(st, msg, to) == [st EXCEPT !.out = Append(@, [to |-> to, msg |-> msg])]

\* _handle_disconnect, called with peer_lock free
handle_disconnect(st) == [st EXCEPT !.peer_addr = NoPeer, !.punch_alive = FALSE]

\* disconnect_peer called by `thread` with peer_lock free: it sends disconnect
\* holding peer_lock and calls _handle_disconnect, which waits for the same
\* (non-reentrant) lock
disconnect_peer(st, thread) ==
    IF st.peer_addr = NoPeer THEN st
    ELSE LET s1 == Send([st EXCEPT !.peer_lock = thread], Disconnect, st.peer_addr)
         IN IF thread = "listener" THEN [s1 EXCEPT !.listener = "blocked"]
            ELSE [s1 EXCEPT !.main = "blocked"]


\* open(path, "rb").read() of an Optional file
ReadFile(file) == IF file = None THEN Raise("FileNotFoundError") ELSE Ok(TheVal(file))

\* _handle_file_request line 120: the payload names `filehash`, which is not
\* defined (and line 121 sends `payload`, not defined either): NameError
file_response_payload(transfer, hash, nonce, filepath) == Raise("NameError")

\* create_outbound: construct, then register under the nonce
create_outbound(st, nonce, filepath, hash, file) ==
    LET t == OutboundTransfer(nonce, filepath, hash, DEFAULT_CHUNK_SIZE, file)
    IN IF IsRaise(t) THEN t
       ELSE Ok([st EXCEPT !.outbound = DictSet(@, nonce, t.val)])

\* the mutant: the handler answers with file_response and sends chunk 1 at once
handle_file_request_burst(st, e, request) ==
    IF st.peer_addr = NoPeer THEN st
    ELSE LET hashed == ReadFile(cwdfile[e]) IN
         IF IsRaise(hashed) THEN Dies(st)
         ELSE LET hash == generate_hash(hashed.val)
                  created == create_outbound(st, request.nonce, request.filepath,
                                             hash, media[e])
              IN IF IsRaise(created) THEN Dies(st)
                 ELSE LET t == created.val.outbound[request.nonce]
                          s1 == Send(created.val,
                                     FileResponse(hash, t.chunks[0], request.nonce,
                                                  request.filepath, FALSE),
                                     st.peer_addr)
                      IN IF t.total_chunks < 2 THEN s1
                         ELSE Send(s1, FileChunk("file_chunk", 1, request.nonce,
                                                 t.chunks[1], FALSE), st.peer_addr)

\* _handle_file_request.  generate_hash(filepath) opens the path under the
\* cwd, create_outbound the one under MEDIA_DOWNLOAD_DIR.  Every message of the
\* model carries its nonce and filepath, so request.get("nonce") is request.nonce.
handle_file_request(st, e, request) ==
    IF st.peer_addr = NoPeer THEN st
    ELSE LET hashed == ReadFile(cwdfile[e]) IN
         IF IsRaise(hashed) THEN Dies(st)
         ELSE LET hash == generate_hash(hashed.val)
                  created == create_outbound(st, request.nonce, request.filepath,
                                             hash, media[e])
              IN IF IsRaise(created) THEN Dies(st)
                 ELSE LET payload == file_response_payload(
                                         created.val.outbound[request.nonce], hash,
                                         request.nonce, request.filepath)
                      IN IF IsRaise(payload) THEN Dies(created.val)
                         ELSE Send(created.val, payload.val, st.peer_addr)

\* _handle_file_response lines 139-140: response_payload is built, and the
\* send names `payload`, which is not defined: NameError
file_response_ack(nonce) == Raise("NameError")

\* the mutant: the first chunk is written to the output file as it arrives
handle_file_response_writes(st, request) ==
    IF st.peer_addr = NoPeer THEN st
    ELSE LET transfer == add_chunk(InboundTransfer(request.nonce,
                                                   Get(request, "filehash"),
                                                   Get(request, "filename")),
                                   0, Get(request, "chunk_data"),
                                   Get(request, "single_chunk"))
         IN Dies([st EXCEPT !.inbound = DictSet(@, request.nonce, transfer),
                            !.written = Append(@, [filename |-> transfer.filename,
                                                   data |-> transfer.chunks[0]])])

\* _handle_file_response: the fields are read under the keys filehash and
\* chunk_data; create_inbound replaces any record of the nonce
handle_file_response(st, request) ==
    IF st.peer_addr = NoPeer THEN st
    ELSE LET hash == Get(request, "filehash")
             initial_chunk == Get(request, "chunk_data")
             is_last == Get(request, "single_chunk")
             transfer == add_chunk(InboundTransfer(request.nonce, hash,
                                                   Get(request, "filename")),
                                   0, initial_chunk, is_last)
             s1 == [st EXCEPT !.inbound = DictSet(@, request.nonce, transfer)]
             ack == file_response_ack(request.nonce)
         IN IF IsRaise(ack) THEN Dies(s1) ELSE Send(s1, ack.val, st.peer_addr)

\* `seq = request.get(seq)` and the lines after it (_handle_file_chunk 149-151,
\* _handle_file_ack 167-168, _handle_file_done 193-196) read a local name
\* before it is assigned: UnboundLocalError
request_fields(request) == Raise("UnboundLocalError")

\* _handle_file_chunk
handle_file_chunk(st, request) ==
    IF st.peer_addr = NoPeer THEN st
    ELSE LET args == request_fields(request) IN
         IF IsRaise(args) THEN Dies(st)
         ELSE IF args.val.nonce \notin DOMAIN st.inbound THEN Dies(st)
         ELSE LET t == add_chunk(st.inbound[args.val.nonce], args.val.seq,
                                 Some(args.val.data), Some(FALSE))
              IN Send([st EXCEPT !.inbound = DictSet(@, args.val.nonce, t)],
                      FileAck(args.val.seq, args.val.nonce), st.peer_addr)

\* _handle_file_ack: after mark_acked, chunks[seq+1] raises KeyError past the
\* last chunk, and line 178 sends `payload`, which is not defined
handle_file_ack(st, request) ==
    IF st.peer_addr = NoPeer THEN st
    ELSE LET args == request_fields(request) IN
         IF IsRaise(args) THEN Dies(st)
         ELSE IF args.val.nonce \notin DOMAIN st.outbound THEN Dies(st)
         ELSE Dies([st EXCEPT !.outbound =
                        DictSet(@, args.val.nonce,
                                mark_acked(st.outbound[args.val.nonce], args.val.seq))])

\* _handle_file_done: assemble() raises unless the state is "done"; past the
\* two checks file_complete is sent, and line 216 names `os`, which the module
\* does not import, so the write and remove_inbound are not reached
handle_file_done(st, request) ==
    IF st.peer_addr = NoPeer THEN st
    ELSE LET args == request_fields(request) IN
         IF IsRaise(args) THEN Dies(st)
         ELSE IF args.val.nonce \notin DOMAIN st.inbound THEN Dies(st)
         ELSE LET t == add_chunk(st.inbound[args.val.nonce], args.val.seq,
                                 Some(args.val.data), Some(args.val.is_last))
                  s1 == [st EXCEPT !.inbound = DictSet(@, args.val.nonce, t)]
                  bytes == assemble(t)
              IN IF IsRaise(bytes) THEN Dies(s1)
                 ELSE IF ~has_all_chunks(t) THEN s1
                 ELSE IF ~validate_hash(t, bytes.val) THEN s1
                 ELSE Dies(Send(s1, FileComplete(args.val.nonce), st.peer_addr))

\* _handle_file_complete: remove_outbound, then disconnect_peer
handle_file_complete(st, request) ==
    IF st.peer_addr = NoPeer THEN st
    ELSE disconnect_peer([st EXCEPT !.outbound =
                              IF request.nonce \in DOMAIN @ THEN DictDel(@, request.nonce)
                              ELSE @],
                         "listener")

\* _listen_loop lines 266-295: one datagram from an address that is not the
\* rendezvous server's.  Line 270 takes parsed.get("type") of whatever json.loads
\* returned unless it is falsy: a non-empty list has no get (AttributeError)
listen_peer(st, e, src, parsed) ==
    IF st.peer_lock # "free" THEN Blocks(st)
    ELSE IF st.peer_addr = NoPeer \/ src # st.peer_addr THEN st
    ELSE CASE parsed.type = "raw" -> st
           [] parsed.type = "json list" -> Dies(st)
           [] parsed.type = "disconnect" -> handle_disconnect(st)
           [] parsed.type = "file_request" -> handle_file_request(st, e, parsed)
           [] parsed.type = "file_response" -> handle_file_response(st, parsed)
           [] parsed.type = "file_chunk" -> handle_file_chunk(st, parsed)
           [] parsed.type = "file_ack" -> handle_file_ack(st, parsed)
           [] parsed.type = "file_done" -> handle_file_done(st, parsed)
           [] parsed.type = "file_complete" -> handle_file_complete(st, parsed)
           [] OTHER -> st

\* whether the datagram reaches a handler
Dispatched(st, src) == st.peer_lock = "free" /\ st.peer_addr # NoPeer /\ src = st.peer_addr


PeerIdle ==
    /\ peer_addr = [e \in Endpoints |-> NoPeer]
    /\ punch_alive = [e \in Endpoints |-> FALSE]
    /\ punch_thread = [e \in Endpoints |-> "none"]
    /\ peer_lock = [e \in Endpoints |-> "free"]
    /\ listener = [e \in Endpoints |-> "running"]
    /\ main = [e \in Endpoints |-> "ready"]
    /\ inbound_transfers = [e \in Endpoints |-> EmptyDict]
    /\ outbound_transfers = [e \in Endpoints |-> EmptyDict]
    /\ media = [e \in Endpoints |-> None]
    /\ cwdfile = [e \in Endpoints |-> None]
    /\ net = {}
    /\ sent = {}
    /\ handled = [e \in Endpoints |-> {}]
    /\ written = [e \in Endpoints |-> <<>>]
    /\ lost = FALSE

\* after start() on both endpoints: A holds the file under MEDIA_DOWNLOAD_DIR;
\* a file of the same path may or may not exist under A's working directory
PeerInit ==
    /\ peer_addr = [e \in Endpoints |-> NoPeer]
    /\ punch_alive = [e \in Endpoints |-> FALSE]
    /\ punch_thread = [e \in Endpoints |-> "none"]
    /\ peer_lock = [e \in Endpoints |-> "free"]
    /\ listener = [e \in Endpoints |-> "running"]
    /\ main = [e \in Endpoints |-> "ready"]
    /\ inbound_transfers = [e \in Endpoints |-> EmptyDict]
    /\ outbound_transfers = [e \in Endpoints |-> EmptyDict]
    /\ \E content \in {SmallFile, BigFile} :
          /\ media = [e \in Endpoints |-> IF e = "A" THEN Some(content) ELSE None]
          /\ \E c \in {None, Some(content)} :
                cwdfile = [e \in Endpoints |-> IF e = "A" THEN c ELSE None]
    /\ net = {}
    /\ sent = {}
    /\ handled = [e \in Endpoints |-> {}]
    /\ written = [e \in Endpoints |-> <<>>]
    /\ lost = FALSE

Datagrams(e, out) == {[src |-> e, dst |-> out[i].to, msg |-> out[i].msg] : i \in DOMAIN out}

\* the endpoint's state after a thread of it ran, and what it sent
Apply(e, st, netNow) ==
    /\ peer_addr' = [peer_addr EXCEPT ![e] = st.peer_addr]
    /\ punch_alive' = [punch_alive EXCEPT ![e] = st.punch_alive]
    /\ punch_thread' = [punch_thread EXCEPT ![e] = st.punch_thread]
    /\ peer_lock' = [peer_lock EXCEPT ![e] = st.peer_lock]
    /\ listener' = [listener EXCEPT ![e] = st.listener]
    /\ main' = [main EXCEPT ![e] = st.main]
    /\ inbound_transfers' = [inbound_transfers EXCEPT ![e] = st.inbound]
    /\ outbound_transfers' = [outbound_transfers EXCEPT ![e] = st.outbound]
    /\ written' = [written EXCEPT ![e] = st.written]
    /\ net' = netNow \cup Datagrams(e, st.out)
    /\ sent' = sent \cup Datagrams(e, st.out)

\* _start_punching: set the gate, and start the thread unless one is alive
start_punching(st) ==
    [st EXCEPT !.punch_alive = TRUE,
               !.punch_thread = IF @ \in {"none", "exited"} THEN "top" ELSE @]

\* _listen_loop lines 251-264: a peer message from the rendezvous server
RecvServerPeer(e, p) ==
    /\ listener[e] = "running"
    /\ LET st == EndpointState(e)
       IN Apply(e, IF st.peer_lock # "free" THEN Blocks(st)
                   ELSE start_punching([st EXCEPT !.peer_addr = p]), net)
    /\ UNCHANGED <<media, cwdfile, handled, lost>>

\* _listen_loop: recvfrom returns a datagram from src; netNow is what stays in flight
Receive(e, src, msg, netNow) ==
    /\ listener[e] = "running"
    /\ LET st == EndpointState(e)
       IN /\ Apply(e, listen_peer(st, e, src, msg), netNow)
          /\ handled' = IF Dispatched(st, src)
                        THEN [handled EXCEPT ![e] = @ \cup {msg}]
                        ELSE handled
    /\ UNCHANGED <<media, cwdfile, lost>>

\* a datagram that an endpoint's code sent arrives
Deliver(d) ==
    /\ d \in net
    /\ Receive(d.dst, d.src, d.msg, net \ {d})

\* a datagram arrives from the address src that no endpoint's code has sent
ReceiveForeign(e, src, msg) == Receive(e, src, msg, net)

\* the network drops the datagram d
Lose(d) ==
    /\ d \in net
    /\ net' = net \ {d}
    /\ lost' = TRUE
    /\ UNCHANGED <<peer_addr, punch_alive, punch_thread, peer_lock, listener, main,
                   inbound_transfers, outbound_transfers, media, cwdfile, sent, handled,
                   written>>

\* send_file_request(filepath) on the initiator thread
send_file_request(st, filepath, nonce) ==
    IF st.peer_lock # "free" THEN [st EXCEPT !.main = "blocked"]
    ELSE IF st.peer_addr = NoPeer THEN st
    ELSE Send(st, FileRequest(filepath, nonce), st.peer_addr)

MainSendFileRequest(e) ==
    /\ main[e] = "ready"
    /\ Apply(e, send_file_request(EndpointState(e), TheFile, TheNonce), net)
    /\ UNCHANGED <<media, cwdfile, handled, lost>>

\* disconnect_peer() on the initiator thread
MainDisconnectPeer(e) ==
    /\ main[e] = "ready"
    /\ LET st == EndpointState(e)
       IN Apply(e, IF st.peer_lock # "free" THEN [st EXCEPT !.main = "blocked"]
                   ELSE disconnect_peer(st, "main"), net)
    /\ UNCHANGED <<media, cwdfile, handled, lost>>

NextPeer ==
    \/ \E e \in Endpoints : \E p \in Endpoints \ {e} :
          RecvServerPeer(e, p) /\ UNCHANGED <<chunkVars, trackerVars, mmVars, restVars>>
    \/ \E d \in net : Deliver(d) /\ UNCHANGED <<chunkVars, trackerVars, mmVars, restVars>>
    \/ \E d \in net : Lose(d) /\ UNCHANGED <<chunkVars, trackerVars, mmVars, restVars>>
    \/ \E e \in Endpoints : \E src \in Endpoints \ {e}, msg \in ForeignMsgs :
          ReceiveForeign(e, src, msg) /\ UNCHANGED <<chunkVars, trackerVars, mmVars, restVars>>
    \/ \E e \in Endpoints :
          MainSendFileRequest(e) /\ UNCHANGED <<chunkVars, trackerVars, mmVars, restVars>>
    \/ \E e \in Endpoints :
          MainDisconnectPeer(e) /\ UNCHANGED <<chunkVars, trackerVars, mmVars, restVars>>

----------------------------------------------------------------------------
(* Bad input from the current peer: datagrams that are no JSON object, that    *)
(* have an unknown type, or that name a nonce no transfer record exists for.   *)

BadInputs ==
    {RawZero, JsonList, UnknownType, FileAck(0, TheNonce), FileComplete(TheNonce),
     FileChunk("file_chunk", 1, TheNonce, ToHex(<<62>>), FALSE),
     FileChunk("file_done", 1, TheNonce, ToHex(<<62>>), TRUE)}

NextBadInput ==
    \/ \E e \in Endpoints : \E p \in Endpoints \ {e} :
          RecvServerPeer(e, p) /\ UNCHANGED <<chunkVars, trackerVars, mmVars, restVars>>
    \/ \E e \in Endpoints : \E src \in Endpoints \ {e}, msg \in BadInputs :
          ReceiveForeign(e, src, msg) /\ UNCHANGED <<chunkVars, trackerVars, mmVars, restVars>>

----------------------------------------------------------------------------
(* Retransmit eligibility: should_retransmit asked of an outbound transfer of  *)
(* three chunks, for every seq up to one past the last, after any acks (the    *)
(* seq of a file_ack is whatever the peer wrote: also one past the last).      *)

\* bounds: the latest time asked, and the seqs that have a last_sent / retries entry
MaxRetxTime == 3
MaxRetxSeq == 1

RetxFile == <<65, 66, 67>>
\* the last_sent and retries dicts tried
RetxDicts(values) == UNION {[keys -> values] : keys \in SUBSET (0..MaxRetxSeq)}

RetxIdle ==
    /\ rt = EmptyDict
    /\ rseq = 0
    /\ rnow = 0
    /\ rres = None

RetxInit ==
    /\ \E last_sent \in RetxDicts({0, 2}),
          retries \in RetxDicts({CHUNK_MAX_RETRIES - 1, CHUNK_MAX_RETRIES}) :
          rt = [OutboundTransfer(TheNonce, TheFile, generate_hash(RetxFile), 1,
                                 Some(RetxFile)).val
                  EXCEPT !.last_sent = last_sent, !.retries = retries]
    /\ rseq = 0
    /\ rnow = 0
    /\ rres = None

\* mark_acked(seq) on the transfer
RetxMarkAcked(seq) ==
    /\ rt' = mark_acked(rt, seq)
    /\ rres' = None
    /\ UNCHANGED <<rseq, rnow>>

\* should_retransmit(seq, now, CHUNK_RETRANSMIT_TIMEOUT, CHUNK_MAX_RETRIES)
RetxShouldRetransmit(seq, now) ==
    /\ rres' = Some(should_retransmit(rt, seq, now, CHUNK_RETRANSMIT_TIMEOUT,
                                      CHUNK_MAX_RETRIES))
    /\ rseq' = seq
    /\ rnow' = now
    /\ UNCHANGED rt

NextRetransmit ==
    \/ \E seq \in 0..rt.total_chunks :
          RetxMarkAcked(seq)
          /\ UNCHANGED <<peerVars, chunkVars, trackerVars, mmVars, stopVars, clientVars>>
    \/ \E seq \in 0..rt.total_chunks, now \in 0..MaxRetxTime :
          RetxShouldRetransmit(seq, now)
          /\ UNCHANGED <<peerVars, chunkVars, trackerVars, mmVars, stopVars, clientVars>>

----------------------------------------------------------------------------
(* Cooperative stop: stop() on one endpoint while its receive thread and its   *)
(* keepalive thread run.  The keepalive thread is at "top" (the loop test,     *)
(* line 306), "wait" (punch_alive.wait(), 307), "woken" (the test of 308),     *)
(* "lock" (310), "send" (315-321) or "exited"; stop() is at "idle" (not         *)
(* called), "a" (alive cleared), "b" (punch_alive cleared) or "closed" (joins  *)
(* timed out or returned, socket closed).                                      *)

\* the endpoint that is stopped
Stopper == "A"

StopIdle ==
    /\ alive = [e \in Endpoints |-> TRUE]
    /\ stop_pc = [e \in Endpoints |-> "idle"]
    /\ punch_peer = [e \in Endpoints |-> NoPeer]

\* _punch_loop line 306: the loop test
PunchLoopTop(e) ==
    /\ punch_thread[e] = "top"
    /\ punch_thread' = [punch_thread EXCEPT ![e] = IF alive[e] THEN "wait" ELSE "exited"]
    /\ UNCHANGED <<peer_addr, punch_alive, peer_lock, listener, main, inbound_transfers,
                   outbound_transfers, media, cwdfile, net, sent, handled, written, lost>>
    /\ UNCHANGED stopVars

\* _punch_loop line 307: punch_alive.wait() returns once the event is set
PunchLoopWait(e) ==
    /\ punch_thread[e] = "wait"
    /\ punch_alive[e]
    /\ punch_thread' = [punch_thread EXCEPT ![e] = "woken"]
    /\ UNCHANGED <<peer_addr, punch_alive, peer_lock, listener, main, inbound_transfers,
                   outbound_transfers, media, cwdfile, net, sent, handled, written, lost>>
    /\ UNCHANGED stopVars

\* _punch_loop lines 308-309
PunchLoopWoken(e) ==
    /\ punch_thread[e] = "woken"
    /\ punch_thread' = [punch_thread EXCEPT ![e] = IF alive[e] THEN "lock" ELSE "exited"]
    /\ UNCHANGED <<peer_addr, punch_alive, peer_lock, listener, main, inbound_transfers,
                   outbound_transfers, media, cwdfile, net, sent, handled, written, lost>>
    /\ UNCHANGED stopVars

\* a variant of PunchLoopLock: the test `if not peer` is left out
PunchLoopLock_untested(e) ==
    /\ punch_thread[e] = "lock"
    /\ peer_lock[e] = "free"
    /\ punch_peer' = [punch_peer EXCEPT ![e] = peer_addr[e]]
    /\ punch_thread' = [punch_thread EXCEPT ![e] = "send"]
    /\ UNCHANGED <<peer_addr, punch_alive, peer_lock, listener, main, inbound_transfers,
                   outbound_transfers, media, cwdfile, net, sent, handled, written, lost>>
    /\ UNCHANGED <<alive, stop_pc>>

\* _punch_loop lines 310-314: copy the peer under peer_lock and release it;
\* without a peer sleep a second and start over
PunchLoopLock(e) ==
    /\ punch_thread[e] = "lock"
    /\ peer_lock[e] = "free"
    /\ punch_peer' = [punch_peer EXCEPT ![e] = peer_addr[e]]
    /\ punch_thread' = [punch_thread EXCEPT ![e] =
                           IF peer_addr[e] = NoPeer THEN "top" ELSE "send"]
    /\ UNCHANGED <<peer_addr, punch_alive, peer_lock, listener, main, inbound_transfers,
                   outbound_transfers, media, cwdfile, net, sent, handled, written, lost>>
    /\ UNCHANGED <<alive, stop_pc>>

\* _punch_loop lines 315-321: send a punch and a zero byte to the copied peer
\* (on a closed socket sendto raises, which is caught and printed), then sleep
punch_send(st, peer, open) ==
    LET s1 == [st EXCEPT !.punch_thread = "top"]
    IN IF open THEN Send(Send(s1, Punch, peer), RawZero, peer) ELSE s1

PunchLoopSend(e) ==
    /\ punch_thread[e] = "send"
    /\ Apply(e, punch_send(EndpointState(e), punch_peer[e], stop_pc[e] # "closed"), net)
    /\ UNCHANGED <<media, cwdfile, handled, lost>>
    /\ UNCHANGED stopVars

\* _listen_loop lines 237-243: recvfrom times out, or raises on the closed
\* socket, and the loop ends because alive is cleared
ListenLoopExit(e) ==
    /\ listener[e] = "running"
    /\ ~alive[e]
    /\ listener' = [listener EXCEPT ![e] = "exited"]
    /\ UNCHANGED <<peer_addr, punch_alive, punch_thread, peer_lock, main,
                   inbound_transfers, outbound_transfers, media, cwdfile, net, sent,
                   handled, written, lost>>
    /\ UNCHANGED stopVars

\* stop() line 35
StopClearAlive(e) ==
    /\ stop_pc[e] = "idle"
    /\ alive' = [alive EXCEPT ![e] = FALSE]
    /\ stop_pc' = [stop_pc EXCEPT ![e] = "a"]
    /\ UNCHANGED <<peerVars, punch_peer>>

\* stop() line 36
StopClearPunchAlive(e) ==
    /\ stop_pc[e] = "a"
    /\ punch_alive' = [punch_alive EXCEPT ![e] = FALSE]
    /\ stop_pc' = [stop_pc EXCEPT ![e] = "b"]
    /\ UNCHANGED <<peer_addr, punch_thread, peer_lock, listener, main, inbound_transfers,
                   outbound_transfers, media, cwdfile, net, sent, handled, written, lost>>
    /\ UNCHANGED <<alive, punch_peer>>

\* stop() lines 37-44: each join returns after a second at the latest, then
\* the socket is closed
StopJoinClose(e) ==
    /\ stop_pc[e] = "b"
    /\ stop_pc' = [stop_pc EXCEPT ![e] = "closed"]
    /\ UNCHANGED peerVars
    /\ UNCHANGED <<alive, punch_peer>>

\* a peer message from the rendezvous arrives while the socket is open
StopRecvServerPeer(e, p) ==
    /\ stop_pc[e] # "closed"
    /\ RecvServerPeer(e, p)
    /\ UNCHANGED stopVars

\* a disconnect arrives from src while the socket is open
StopRecvDisconnect(e, src) ==
    /\ stop_pc[e] # "closed"
    /\ ReceiveForeign(e, src, Disconnect)
    /\ UNCHANGED stopVars

\* the steps of the three threads of endpoint e
PunchLoopStep(e) ==
    (PunchLoopTop(e) \/ PunchLoopWait(e) \/ PunchLoopWoken(e) \/ PunchLoopLock(e)
     \/ PunchLoopSend(e))
    /\ UNCHANGED <<chunkVars, trackerVars, mmVars, retxVars, clientVars>>
ListenLoopStep(e) ==
    ListenLoopExit(e) /\ UNCHANGED <<chunkVars, trackerVars, mmVars, retxVars, clientVars>>
StopStep(e) ==
    (StopClearPunchAlive(e) \/ StopJoinClose(e))
    /\ UNCHANGED <<chunkVars, trackerVars, mmVars, retxVars, clientVars>>

NextStop ==
    \/ PunchLoopTop(Stopper)
          /\ UNCHANGED <<chunkVars, trackerVars, mmVars, retxVars, clientVars>>
    \/ PunchLoopWait(Stopper)
          /\ UNCHANGED <<chunkVars, trackerVars, mmVars, retxVars, clientVars>>
    \/ PunchLoopWoken(Stopper)
          /\ UNCHANGED <<chunkVars, trackerVars, mmVars, retxVars, clientVars>>
    \/ PunchLoopLock(Stopper)
          /\ UNCHANGED <<chunkVars, trackerVars, mmVars, retxVars, clientVars>>
    \/ PunchLoopSend(Stopper)
          /\ UNCHANGED <<chunkVars, trackerVars, mmVars, retxVars, clientVars>>
    \/ ListenLoopExit(Stopper)
          /\ UNCHANGED <<chunkVars, trackerVars, mmVars, retxVars, clientVars>>
    \/ StopClearAlive(Stopper)
          /\ UNCHANGED <<chunkVars, trackerVars, mmVars, retxVars, clientVars>>
    \/ StopClearPunchAlive(Stopper)
          /\ UNCHANGED <<chunkVars, trackerVars, mmVars, retxVars, clientVars>>
    \/ StopJoinClose(Stopper)
          /\ UNCHANGED <<chunkVars, trackerVars, mmVars, retxVars, clientVars>>
    \/ \E p \in Endpoints \ {Stopper} :
          StopRecvServerPeer(Stopper, p)
          /\ UNCHANGED <<chunkVars, trackerVars, mmVars, retxVars, clientVars>>
    \/ \E src \in Endpoints \ {Stopper} :
          StopRecvDisconnect(Stopper, src)
          /\ UNCHANGED <<chunkVars, trackerVars, mmVars, retxVars, clientVars>>

----------------------------------------------------------------------------
(* client.py download_page and tracker_api.py APIClient against the tracker's  *)
(* HTTP routes.  A request is [method, path, ip, filename], ip the query        *)
(* parameter ({} when absent); a response is [status, peers].                  *)

\* the requester's ip, and the file it fetches
Requester == "ip2"
ClFile == "f1"

HttpRequest(method, path, ip, filename) ==
    [method |-> method, path |-> path, ip |-> ip, filename |-> filename]
HttpResponse(status, peers) == [status |-> status, peers |-> peers]

\* app.py's routes: @app.get("/peers"), @app.post("/add"), @app.post("/remove"),
\* @app.post("/peer_offline"); a path asked with another method is answered 405.
\* The registry after the request, and the response.
tracker_http(reg, req, client_ip, now) ==
    IF req.method = "GET" /\ req.path = "/peers"
    THEN [reg |-> reg, res |-> HttpResponse(200, reg.file_ips[req.filename])]
    ELSE IF req.method = "POST" /\ req.path = "/add"
    THEN [reg |-> add_mapping(reg, client_ip, req.filename, now),
          res |-> HttpResponse(200, {})]
    ELSE IF req.method = "POST" /\ req.path = "/remove" /\ req.ip # None
    THEN [reg |-> remove_mapping(reg, TheVal(req.ip), req.filename),
          res |-> HttpResponse(200, {})]
    ELSE IF req.method = "POST" /\ req.path = "/remove"
    THEN [reg |-> reg, res |-> HttpResponse(422, {})]
    ELSE [reg |-> reg, res |-> HttpResponse(405, {})]

\* tracker_api.py lines 14, 19, 24: requests.get(...), in a module that does
\* not import requests: NameError
requests_get(req) == Raise("NameError")

\* APIClient.get_peers / add_tracker / remove_tracker
get_peers(filename) == requests_get(HttpRequest("GET", "/peers", None, filename))
add_tracker(filename) == requests_get(HttpRequest("GET", "/add", None, filename))
remove_tracker(ip, filename) ==
    requests_get(HttpRequest("GET", "/remove", Some(ip), filename))

\* download_page lines 34-46: the loop over the candidates, in the order the
\* tracker listed them; isfile is the test of line 40 after each attempt.
\* The outcome and the candidates reported for removal.
RECURSIVE fetch_loop(_, _, _, _)
fetch_loop(peers, isfile, filename, reported) ==
    IF peers = {} THEN [pc |-> "returned", reported |-> reported]
    ELSE LET peer == CHOOSE x \in peers : TRUE IN
         IF isfile
         THEN IF IsRaise(add_tracker(filename))
              THEN [pc |-> "raised", reported |-> reported]
              ELSE [pc |-> "returned", reported |-> reported]
         ELSE IF IsRaise(remove_tracker(peer, filename))
              THEN [pc |-> "raised", reported |-> reported]
              ELSE fetch_loop(peers \ {peer}, isfile, filename, reported \cup {peer})

\* download_page(domain, page)
download_page(isfile, filename) ==
    LET res == get_peers(filename) IN
    IF IsRaise(res) THEN [pc |-> "raised", reported |-> {}]
    ELSE IF res.val.status >= 400 THEN [pc |-> "returned", reported |-> {}]
    ELSE fetch_loop(res.val.peers, isfile, filename, {})

NoAttempt == [cand |-> "", pc |-> 0, intro |-> None, reply |-> None, requested |-> {}]

ClientIdle ==
    /\ cl_pc = "idle"
    /\ cl_file = FALSE
    /\ cl_holders = {}
    /\ cl_reqs = {}
    /\ cl_att = NoAttempt

\* a request reaches the tracker from client_ip (any HTTP client)
TrackerServe(req, client_ip) ==
    /\ LET r == tracker_http(Registry, req, client_ip, tnow)
       IN SetRegistry(r.reg, [op |-> req.path, ip |-> client_ip, filename |-> req.filename])
    /\ UNCHANGED clientVars

\* download_page(domain, page) at the requester; every request of it that the
\* tracker served is recorded
ClientDownloadPage ==
    /\ LET r == download_page(cl_file, ClFile)
       IN /\ cl_pc' = r.pc
          /\ cl_reqs' = cl_reqs \cup {HttpRequest("GET", "/remove", Some(ip), ClFile) :
                                        ip \in r.reported}
    /\ cl_holders' = file_ips[ClFile]
    /\ UNCHANGED <<cl_file, cl_att, trackerVars>>

\* a file appears at MEDIA_DOWNLOAD_DIR/filepath of the requester
ClientFileAppears ==
    /\ ~cl_file
    /\ cl_file' = TRUE
    /\ UNCHANGED <<cl_pc, cl_holders, cl_reqs, cl_att, trackerVars>>

NextClient ==
    \/ \E method \in {"GET", "POST"}, path \in {"/add", "/remove"}, ip \in TIps,
          client_ip \in TIps, f \in TFiles :
          TrackerServe(HttpRequest(method, path, Some(ip), f), client_ip)
          /\ UNCHANGED <<peerVars, chunkVars, mmVars, retxVars, stopVars>>
    \/ TrackerTick
          /\ UNCHANGED <<peerVars, chunkVars, mmVars, retxVars, stopVars, clientVars>>
    \/ ClientDownloadPage
          /\ UNCHANGED <<peerVars, chunkVars, mmVars, retxVars, stopVars>>
    \/ ClientFileAppears
          /\ UNCHANGED <<peerVars, chunkVars, mmVars, retxVars, stopVars>>

----------------------------------------------------------------------------
(* Keepalive: the keepalive thread of one endpoint interleaved with its       *)
(* receive thread (peer messages from the rendezvous, disconnects from a      *)
(* peer) and its initiator thread (disconnect_peer).                          *)

\* the addresses the rendezvous may introduce to the endpoint
KeepalivePeers == {"B", "C"}

NextKeepalive ==
    \/ PunchLoopTop(Stopper)
          /\ UNCHANGED <<chunkVars, trackerVars, mmVars, retxVars, clientVars>>
    \/ PunchLoopWait(Stopper)
          /\ UNCHANGED <<chunkVars, trackerVars, mmVars, retxVars, clientVars>>
    \/ PunchLoopWoken(Stopper)
          /\ UNCHANGED <<chunkVars, trackerVars, mmVars, retxVars, clientVars>>
    \/ PunchLoopLock(Stopper)
          /\ UNCHANGED <<chunkVars, trackerVars, mmVars, retxVars, clientVars>>
    \/ PunchLoopSend(Stopper)
          /\ UNCHANGED <<chunkVars, trackerVars, mmVars, retxVars, clientVars>>
    \/ \E p \in KeepalivePeers :
          StopRecvServerPeer(Stopper, p)
          /\ UNCHANGED <<chunkVars, trackerVars, mmVars, retxVars, clientVars>>
    \/ \E src \in KeepalivePeers :
          StopRecvDisconnect(Stopper, src)
          /\ UNCHANGED <<chunkVars, trackerVars, mmVars, retxVars, clientVars>>
    \/ MainDisconnectPeer(Stopper)
          /\ UNCHANGED <<chunkVars, trackerVars, mmVars, retxVars, stopVars, clientVars>>

----------------------------------------------------------------------------
(* the specifications *)

\* The loop body of download_page, lines 35-38, run by the endpoint Fetcher for
\* a candidate ip: request_connect(peer), a sleep, send_file_request(filepath),
\* a sleep.  The rendezvous server handles the connect datagram as it arrives;
\* its reply reaches the receive thread at any later moment, or never.
\* An endpoint's peer_addr holds the ip of the address it was introduced to.
Fetcher == "A"
FetcherAddr == <<"ip3", 1>>
ConnectData(ip) == [json |-> "object", type |-> Some("connect"), target_ip |-> Some(ip)]

\* line 35: request_connect(peer), and the server's handling of the datagram
FetchRequestConnect(c) ==
    /\ cl_att.pc \in {0, 38}
    /\ main[Fetcher] = "ready"
    /\ LET r == handle_packet(clients, ConnectData(c), FetcherAddr, mm_now)
           replies == {r.out[i].msg : i \in {j \in DOMAIN r.out : r.out[j].to = FetcherAddr}}
       IN /\ clients' = r.clients
          /\ mm_out' = r.out
          /\ mm_pkt' = [data |-> ConnectData(c), addr |-> FetcherAddr, was |-> NoAddr]
          /\ cl_att' = [cand |-> c, pc |-> 35,
                        intro |-> {m.peer : m \in {x \in replies : x.type = "peer"}},
                        reply |-> replies, requested |-> {}]
    /\ UNCHANGED <<packet_queue, mm_now, cl_pc, cl_file, cl_holders, cl_reqs>>
    /\ UNCHANGED <<peerVars, chunkVars, trackerVars, retxVars, stopVars>>

\* _listen_loop lines 251-264: the server's reply arrives (an error is printed)
FetchRecvReply ==
    /\ cl_att.reply # None
    /\ LET m == TheVal(cl_att.reply)
       IN IF m.type = "peer" THEN RecvServerPeer(Fetcher, m.peer[1])
          ELSE UNCHANGED peerVars
    /\ cl_att' = [cl_att EXCEPT !.reply = None]
    /\ UNCHANGED <<cl_pc, cl_file, cl_holders, cl_reqs>>
    /\ UNCHANGED <<chunkVars, trackerVars, mmVars, retxVars, stopVars>>

\* line 38: send_file_request(filepath), after the sleep of line 36
FetchSendFileRequest ==
    /\ cl_att.pc = 35
    /\ main[Fetcher] = "ready"
    /\ LET s == send_file_request(EndpointState(Fetcher), TheFile, TheNonce)
       IN /\ Apply(Fetcher, s, net)
          /\ cl_att' = [cl_att EXCEPT !.pc = 38,
                                      !.requested = {s.out[i].to : i \in DOMAIN s.out}]
    /\ UNCHANGED <<media, cwdfile, handled, lost>>
    /\ UNCHANGED <<cl_pc, cl_file, cl_holders, cl_reqs>>
    /\ UNCHANGED <<chunkVars, trackerVars, mmVars, retxVars, stopVars>>

NextFetch ==
    \/ \E addr \in MAddrs :
          MMReceive(RegisterData, addr)
          /\ UNCHANGED <<peerVars, chunkVars, trackerVars, restVars>>
    \/ MMWorker /\ UNCHANGED <<peerVars, chunkVars, trackerVars, restVars>>
    \/ \E c \in MIps : FetchRequestConnect(c)
    \/ FetchRecvReply
    \/ FetchSendFileRequest

RestIdle == RetxIdle /\ StopIdle /\ ClientIdle

Init == PeerInit /\ ChunkIdle /\ TrackerInit /\ MMInit /\ RestIdle
Next == NextPeer
Spec == Init /\ [][Next]_vars

InitChunks == PeerIdle /\ ChunkInit /\ TrackerInit /\ MMInit /\ RestIdle
SpecChunks == InitChunks /\ [][NextChunks]_vars

InitServers == PeerIdle /\ ChunkIdle /\ TrackerInit /\ MMInit /\ RestIdle
SpecTracker == InitServers /\ [][NextTracker]_vars
SpecMatchmaker == InitServers /\ [][NextMatchmaker]_vars
SpecClient == InitServers /\ [][NextClient]_vars

InitRetransmit ==
    PeerIdle /\ ChunkIdle /\ TrackerInit /\ MMInit /\ RetxInit /\ StopIdle /\ ClientIdle
SpecRetransmit == InitRetransmit /\ [][NextRetransmit]_vars

\* the clock advances and cleanup_loop, which never returns, takes its next pass
SpecEviction ==
    /\ InitServers
    /\ [][NextEviction]_vars
    /\ WF_vars(MMSweepTick /\ UNCHANGED <<peerVars, chunkVars, trackerVars, restVars>>)
    /\ WF_vars(MMCleanup /\ UNCHANGED <<peerVars, chunkVars, trackerVars, restVars>>)

SpecInbound == InitServers /\ [][NextInbound]_vars

SpecBacklog == InitServers /\ [][NextBacklog]_vars

SpecFetch == InitServers /\ [][NextFetch]_vars

SpecTrackerConc == InitServers /\ [][NextTrackerConc]_vars

SpecBadInput == Init /\ [][NextBadInput]_vars

SpecKeepalive == InitServers /\ [][NextKeepalive]_vars

\* each thread of the stopped endpoint keeps running while it can take a step
SpecStop ==
    /\ InitServers
    /\ [][NextStop]_vars
    /\ WF_vars(PunchLoopStep(Stopper))
    /\ WF_vars(ListenLoopStep(Stopper))
    /\ WF_vars(StopStep(Stopper))

----------------------------------------------------------------------------
(* the claims about file transfer, under Spec *)

SentBy(e, type) == {d \in sent : d.src = e /\ d.msg.type = type}
NChunks(file) == CeilDiv(Len(TheVal(file)), DEFAULT_CHUNK_SIZE)
\* the bytes of the stored chunks in seq order, as assemble() joins them
Joined(t) == JoinParts(t.chunks, 0, TheVal(t.expected_chunks))
DigestMismatch(t) == ~IsRaise(Joined(t)) /\ ~validate_hash(t, Joined(t).val)

\* C1: a transfer does not stay in sending / receiving forever: once the receive
\* thread, the only code that touches a transfer, has stopped for good, no
\* transfer of the endpoint is still in state sending or receiving.
C1_ReliableDelivery ==
    \A e \in Endpoints :
        listener[e] # "running" =>
            /\ \A n \in DOMAIN outbound_transfers[e] :
                  outbound_transfers[e][n].state # "sending"
            /\ \A n \in DOMAIN inbound_transfers[e] :
                  inbound_transfers[e][n].state # "receiving"

\* C2: with no datagram lost, a holder that has the file (N >= 2 chunks) and has
\* handled the file_request has sent file_response for the nonce, and once
\* nothing is in flight the requester has written the file and sent
\* file_complete and both transfer records are gone.
C2_LossFreeFetchCompletes ==
    \A e \in Endpoints :
        ( /\ ~lost
          /\ FileRequest(TheFile, TheNonce) \in handled[e]
          /\ media[e] # None /\ cwdfile[e] # None
          /\ NChunks(media[e]) >= 2 )
        => /\ \E d \in SentBy(e, "file_response") : d.msg.nonce = TheNonce
           /\ net = {} =>
                \E r \in Endpoints \ {e} :
                    /\ written[r] # <<>>
                    /\ SentBy(r, "file_complete") # {}
                    /\ Cardinality(SentBy(r, "file_ack")) = NChunks(media[e])
                    /\ TheNonce \notin DOMAIN inbound_transfers[r]
                    /\ TheNonce \notin DOMAIN outbound_transfers[e]

C5_DigestMismatch ==
    \A e \in Endpoints : \A n \in DOMAIN inbound_transfers[e] :
        LET t == inbound_transfers[e][n] IN
        (has_all_chunks(t) /\ DigestMismatch(t)) =>
            /\ t.state = "error"
            /\ written[e] = <<>>
            /\ SentBy(e, "file_complete") = {}

C7_SingleChunkFlag ==
    \A e \in Endpoints :
        /\ \A n \in DOMAIN outbound_transfers[e] :
              LET t == outbound_transfers[e][n] IN
              \E d \in SentBy(e, "file_response") :
                  /\ d.msg.nonce = n
                  /\ d.msg.chunk = t.chunks[0]
                  /\ d.msg.single_chunk = (t.total_chunks = 1)
        /\ \A m \in handled[e] :
              (m.type = "file_response" /\ m.nonce \in DOMAIN inbound_transfers[e]) =>
                  inbound_transfers[e][m.nonce].expected_chunks
                      = IF m.single_chunk THEN Some(1) ELSE None

----------------------------------------------------------------------------
(* the claim about chunking, under SpecChunks *)

\* C3: the chunks of the outbound transfer, concatenated in seq order, are the
\* file, and a requester that stored them all in seq order assembles the file.
C3_ChunkRoundTrip ==
    /\ cpc # "new" =>
          /\ ~IsRaise(cout)
          /\ ConcatChunks(cout.val.chunks, 0, cout.val.total_chunks) = cfile
    /\ cpc = "assembled" => (~IsRaise(cbytes) /\ cbytes.val = cfile)

----------------------------------------------------------------------------
(* the claims about the tracker, under SpecTracker *)

\* C8: ip is in the holder set of f iff f is in the file set of ip.
C8_ForwardReverseConsistent ==
    \A ip \in TIps, f \in TFiles : ip \in file_ips[f] <=> f \in ip_files[ip]

\* after a peer_offline some other holder is still registered
C8_Witness ==
    /\ lastOp.op = "peer_offline"
    /\ \E ip \in TIps, f \in TFiles : ip \in file_ips[f]

AddOp(ip, f) == [op |-> "add", ip |-> ip, filename |-> f]

\* C9 as claimed: an add(ip, f) that repeats the previous call leaves file->ips,
\* ip->files and lastseen as they were.
C9_IdempotentPublish ==
    [][\A ip \in TIps, f \in TFiles :
          (lastOp = AddOp(ip, f) /\ TrackerAdd(ip, f)) =>
              UNCHANGED <<file_ips, ip_files, lastseen>>]_vars

\* C9 as amended: an add(ip, f) that repeats the previous call leaves file->ips
\* and ip->files as they were; lastseen[ip] becomes the time of this call and
\* no other ip's lastseen changes.
C9_IdempotentMaps ==
    [][\A ip \in TIps, f \in TFiles :
          (lastOp = AddOp(ip, f) /\ TrackerAdd(ip, f)) =>
              /\ UNCHANGED <<file_ips, ip_files>>
              /\ lastseen'[ip] = Some(tnow)
              /\ \A other \in TIps \ {ip} : lastseen'[other] = lastseen[other]]_vars

\* an add was repeated at a later time than the ip's first add
C9_Witness ==
    /\ repeated /\ lastOp.op = "add"
    /\ tnow > 0 /\ lastseen[lastOp.ip] = Some(tnow)

----------------------------------------------------------------------------
(* the claim about the rendezvous, under SpecMatchmaker *)

PeerSends == {i \in DOMAIN mm_out : mm_out[i].msg.type = "peer"}

\* C10: for a connect that found its target, the requester is sent the target's
\* address and the target the requester's, and no peer message is sent to the
\* address it contains.
C10_IntroductionSymmetry ==
    PeerSends # {} =>
        /\ mm_out[1].to = mm_pkt.addr
        /\ mm_out[1].msg.peer[1] = TheVal(mm_pkt.data.target_ip)
        /\ mm_out[2].to = mm_out[1].msg.peer
        /\ mm_out[2].msg.peer = mm_pkt.addr
        /\ \A i \in PeerSends : mm_out[i].msg.peer # mm_out[i].to

\* the datagram the worker takes next is a register / a connect
HeadIsRegister ==
    /\ packet_queue # <<>>
    /\ Head(packet_queue).data.json = "object"
    /\ Head(packet_queue).data.type = Some("register")
HeadIsConnectTo(ip) ==
    /\ packet_queue # <<>>
    /\ Head(packet_queue).data.json = "object"
    /\ Head(packet_queue).data.type = Some("connect")
    /\ Head(packet_queue).data.target_ip = Some(ip)

\* C11: the reply to a processed register is one your_addr that contains the
\* observed source address of the datagram and goes to that address, whatever
\* else the message carries.
C11_AddressObservation ==
    (mm_pkt.data.json = "object" /\ mm_pkt.data.type = Some("register")) =>
        mm_out = <<SendTo(YourAddr(mm_pkt.addr), mm_pkt.addr)>>

\* a register that carries a field the server does not read was answered
C11_Witness ==
    /\ mm_pkt.data.type = Some("register")
    /\ mm_pkt.data.target_ip # None
    /\ Len(mm_out) = 1 /\ mm_out[1].msg.type = "your_addr"
    /\ mm_out[1].msg.peer = mm_pkt.addr /\ mm_out[1].to = mm_pkt.addr

\* C12: the registry holds at most one entry per ip, stored under the ip of
\* its address; a register from a known ip replaces the stored address by the
\* datagram's source address and sets last_seen to the time of the step, both
\* when the receive loop sees the datagram and when the worker handles it.
C12_RegistryFreshness ==
    [][/\ \A ip \in MIps :
            /\ Cardinality(clients'[ip]) <= 1
            /\ \A en \in clients'[ip] : en.addr[1] = ip
       /\ \A addr \in MAddrs, data \in MData :
            ( /\ data.type = Some("register") /\ data.json = "object"
              /\ clients[addr[1]] # None
              /\ MMReceive(data, addr) )
            => clients'[addr[1]] = Some([addr |-> addr, last_seen |-> mm_now])
       /\ (HeadIsRegister /\ MMWorker)
            => clients'[Head(packet_queue).addr[1]]
                 = Some([addr |-> Head(packet_queue).addr, last_seen |-> mm_now])]_vars

\* a register from a port other than the stored one was handled, and the entry
\* holds the new address
C12_Witness ==
    /\ mm_pkt.data.type = Some("register")
    /\ mm_pkt.was # NoAddr
    /\ mm_pkt.was[2] # mm_pkt.addr[2]
    /\ clients[mm_pkt.addr[1]] # None
    /\ TheVal(clients[mm_pkt.addr[1]]).addr = mm_pkt.addr

\* the text of an error contains "not found"
ContainsNotFound(text) == \E i \in DOMAIN text : text[i] = " not found or offline"

\* C13: handling a connect whose target_ip has no entry sends exactly one
\* datagram, an error whose text contains "not found", to the requester's
\* observed address, no peer message, and leaves the registry and the tracker
\* as they were.
C13_RendezvousMiss ==
    [][\A ip \in MIps :
          (HeadIsConnectTo(ip) /\ clients[ip] = None /\ MMWorker) =>
              /\ Len(mm_out') = 1
              /\ mm_out'[1].to = Head(packet_queue).addr
              /\ mm_out'[1].msg.type = "error"
              /\ ContainsNotFound(mm_out'[1].msg.text)
              /\ clients' = clients
              /\ UNCHANGED trackerVars]_vars

\* a registered requester asked for an ip that has no entry and was sent the error
C13_Witness ==
    /\ mm_pkt.data.type = Some("connect")
    /\ mm_pkt.data.target_ip # None
    /\ clients[mm_pkt.addr[1]] # None
    /\ clients[TheVal(mm_pkt.data.target_ip)] = None
    /\ Len(mm_out) = 1 /\ mm_out[1].msg.type = "error"
    /\ ContainsNotFound(mm_out[1].msg.text)

----------------------------------------------------------------------------
(* the claims about retransmission, under SpecRetransmit *)

\* the last should_retransmit call, as the claim describes eligibility
Eligible ==
    /\ rseq = rt.base
    /\ rseq \notin rt.acks
    /\ rnow - GetOr(rt.last_sent, rseq, 0) > CHUNK_RETRANSMIT_TIMEOUT
    /\ GetOr(rt.retries, rseq, 0) < CHUNK_MAX_RETRIES

\* C14: should_retransmit(seq) is true exactly when seq is the current unacked
\* chunk, its last send is older than the timeout and its retries are below
\* the maximum.
C14_RetransmitEligibility == rres # None => (TheVal(rres) <=> Eligible)

----------------------------------------------------------------------------
(* the claims about the peer session, under Spec and SpecStop *)

\* C16: the step in which the receive thread takes a disconnect from its
\* current peer leaves the peer session and punch_alive cleared and every
\* transfer of the endpoint in state cancelled.
C16_DisconnectOnReceipt ==
    [][\A e \in Endpoints : \A src \in Endpoints \ {e} :
          ( /\ listener[e] = "running"
            /\ peer_addr[e] = src
            /\ \/ ReceiveForeign(e, src, Disconnect)
               \/ Deliver([src |-> src, dst |-> e, msg |-> Disconnect]) )
          => /\ peer_addr'[e] = NoPeer
             /\ ~punch_alive'[e]
             /\ \A n \in DOMAIN inbound_transfers'[e] :
                   inbound_transfers'[e][n].state = "cancelled"
             /\ \A n \in DOMAIN outbound_transfers'[e] :
                   outbound_transfers'[e][n].state = "cancelled"]_vars

\* C20: once stop() has cleared alive, the receive thread eventually has ended
\* and the keepalive thread, if one was started, eventually has ended.
C20_CooperativeStop ==
    [](stop_pc[Stopper] # "idle" =>
          <>(/\ listener[Stopper] \in {"exited", "dead"}
             /\ punch_thread[Stopper] \in {"none", "exited"}))

----------------------------------------------------------------------------
(* the claims about the fetch loop, under SpecClient *)

\* C17: after download_page ended with the fetched file in place, the
\* requester is a holder of the file at the tracker.
C17_HolderRegistration ==
    (cl_pc # "idle" /\ cl_file) => Requester \in file_ips[ClFile]

\* C18: after download_page ended without the file in place, the tracker has
\* served a remove of every candidate it listed for the file.
C18_FailedCandidateRemoval ==
    (cl_pc # "idle" /\ ~cl_file) =>
        \A ip \in cl_holders : HttpRequest("GET", "/remove", Some(ip), ClFile) \in cl_reqs

----------------------------------------------------------------------------
(* the claim about bad input from the peer, under SpecBadInput *)

\* C21: the step in which the running receive thread takes a bad datagram from
\* its current peer leaves the transfer tables, the peer session and the files
\* written as they were, sends nothing, and leaves the receive thread running.
C21_PeerBadInputDropped ==
    [][\A e \in Endpoints : \A src \in Endpoints \ {e} : \A msg \in BadInputs :
          ( /\ listener[e] = "running"
            /\ peer_lock[e] = "free"
            /\ peer_addr[e] = src
            /\ ReceiveForeign(e, src, msg) )
          => /\ listener'[e] = "running"
             /\ UNCHANGED <<peer_addr, punch_alive, inbound_transfers,
                            outbound_transfers, written, sent>>]_vars

----------------------------------------------------------------------------
(* the claims about the rendezvous registry, under SpecMatchmaker *)

\* the addresses the registry holds
Addresses(reg) == {TheVal(reg[ip]).addr : ip \in {i \in MIps : reg[i] # None}}
IsNoObject(data) == data.json \in {"garbage", "nonobject"}
IsUnknownType(data) ==
    data.json = "object" /\ data.type \notin {Some("register"), Some("connect")}

\* what C22 says of the worker: a datagram that is no JSON object is consumed
\* without a reply and without a change of the registry; an object of an
\* unknown type is consumed with one error "unknown message type" to its source
WorkerOnBadInput ==
    /\ (packet_queue # <<>> /\ IsNoObject(Head(packet_queue).data) /\ MMWorker)
          => /\ mm_out' = <<>>
             /\ clients' = clients
             /\ packet_queue' = Tail(packet_queue)
    /\ (packet_queue # <<>> /\ IsUnknownType(Head(packet_queue).data) /\ MMWorker)
          => /\ mm_out' = <<SendTo(ErrorMsg(<<"unknown message type">>),
                                   Head(packet_queue).addr)>>
             /\ packet_queue' = Tail(packet_queue)

\* C22 as claimed: from receipt to handling, a datagram that is no JSON object
\* gets no reply and leaves the set of addresses in the registry unchanged; an
\* object of an unknown type is answered error "unknown message type"; the
\* worker goes on to the next datagram.
C22_RendezvousBadInput ==
    [][/\ \A data \in MData, addr \in MAddrs :
            (IsNoObject(data) /\ MMReceive(data, addr))
                => Addresses(clients') = Addresses(clients)
       /\ WorkerOnBadInput]_vars

\* C22 as amended: as claimed, except that on receipt the entry of an already
\* registered source ip is set to the observed address, as for any datagram;
\* no entry is added or removed and no other ip's entry changes.
C22_RendezvousBadInputRefresh ==
    [][/\ \A data \in MData, addr \in MAddrs :
            (IsNoObject(data) /\ MMReceive(data, addr))
                => /\ \A ip \in MIps \ {addr[1]} : clients'[ip] = clients[ip]
                   /\ clients'[addr[1]] = None <=> clients[addr[1]] = None
                   /\ \A en \in clients'[addr[1]] : en.addr = addr
       /\ WorkerOnBadInput]_vars

\* a datagram that is no JSON object came from a registered ip behind a new
\* port and was consumed without a reply; the entry holds the new address
C22_Witness ==
    /\ IsNoObject(mm_pkt.data)
    /\ mm_pkt.was # NoAddr /\ mm_pkt.was[2] # mm_pkt.addr[2]
    /\ mm_out = <<>>
    /\ clients[mm_pkt.addr[1]] # None
    /\ TheVal(clients[mm_pkt.addr[1]]).addr = mm_pkt.addr

----------------------------------------------------------------------------
(* the claim about the outbound transfer record, under SpecRetransmit *)

\* C23: after any sequence of acks, chunks has exactly the keys
\* 0..total_chunks-1, the acked seqs lie in that range, and base is the smallest
\* seq of the range that is not acked, or total_chunks when all are.
C23_OutboundInvariants ==
    LET range == 0..(rt.total_chunks - 1)
        unacked == range \ rt.acks
    IN /\ DOMAIN rt.chunks = range
       /\ rt.acks \subseteq range
       /\ rt.base = IF unacked = {} THEN rt.total_chunks
                    ELSE CHOOSE s \in unacked : \A u \in unacked : s <= u

----------------------------------------------------------------------------
(* the claim about the keepalive thread, under SpecKeepalive *)

\* the step in which the keepalive thread of e sends
PunchStep(e) == punch_thread[e] = "send" /\ punch_thread'[e] = "top"
NewPunches(e) == {d \in sent' \ sent : d.src = e /\ d.msg.type = "punch"}

\* C24 as claimed: a punch is sent only while a peer session is set, and to the
\* session address current at the moment of sending.
C24_KeepaliveGating ==
    [][\A e \in Endpoints :
          /\ PunchStep(e) => (peer_addr[e] # NoPeer /\ punch_peer[e] = peer_addr[e])
          /\ NewPunches(e) # {} => PunchStep(e)]_vars

\* C24 as amended: the keepalive thread goes on to send only if a peer session
\* was set when it copied the address under the lock; the punch goes to that
\* copy, whatever happens to the session between the copy and the send; no
\* other step sends a punch; and while punch_alive is cleared the suspended
\* thread stays suspended.
C24_KeepaliveGatingAtCopy ==
    [][\A e \in Endpoints :
          /\ (punch_thread[e] # "send" /\ punch_thread'[e] = "send")
                => (peer_addr[e] # NoPeer /\ punch_peer'[e] = peer_addr[e])
          /\ (punch_thread[e] = "send" /\ punch_thread'[e] = "send")
                => punch_peer'[e] = punch_peer[e]
          /\ PunchStep(e)
                => [src |-> e, dst |-> punch_peer[e], msg |-> Punch] \in sent'
          /\ NewPunches(e) # {}
                => (PunchStep(e) /\ \A d \in NewPunches(e) : d.dst = punch_peer[e])
          /\ (punch_thread[e] = "wait" /\ ~punch_alive[e])
                => punch_thread'[e] = "wait"]_vars

\* the endpoint punched one peer, was disconnected and suspended, was given
\* another peer and punched that one
C24_Witness ==
    /\ Disconnect \in handled[Stopper]
    /\ peer_addr[Stopper] = "C"
    /\ [src |-> Stopper, dst |-> "B", msg |-> Punch] \in sent
    /\ [src |-> Stopper, dst |-> "C", msg |-> Punch] \in sent
    /\ punch_thread[Stopper] = "top"

----------------------------------------------------------------------------
(* the claim about the sweep, under SpecEviction *)

Stale(reg, ip, now) ==
    reg[ip] # None /\ TheVal(reg[ip]).last_seen < now - CLIENT_TIMEOUT
\* the times the clock shows
ClockTimes == {k * SweepSeconds : k \in 0..MaxSweeps}

\* C25: a sweep removes exactly the entries whose last_seen is older than the
\* threshold and leaves every other entry as it was; and an entry old enough to
\* go stale within the clock's range is eventually removed unless its ip is
\* heard from again.
C25_StaleEviction ==
    /\ [][MMCleanup =>
            \A ip \in MIps :
                clients'[ip] = IF Stale(clients, ip, mm_now) THEN None ELSE clients[ip]]_vars
    /\ \A ip \in MIps : \A t \in ClockTimes :
          (/\ clients[ip] # None
           /\ TheVal(clients[ip]).last_seen = t
           /\ t + CLIENT_TIMEOUT < MaxSweeps * SweepSeconds)
          ~> (clients[ip] = None \/ TheVal(clients[ip]).last_seen > t)

\* the ip whose register was handled last has been evicted, while another ip,
\* heard from within the threshold, still has its entry
C25_Witness ==
    /\ mm_pkt.data.type = Some("register")
    /\ clients[mm_pkt.addr[1]] = None
    /\ \E ip \in MIps : clients[ip] # None /\ TheVal(clients[ip]).last_seen = mm_now

----------------------------------------------------------------------------
(* the claim about the latest address, under SpecBacklog *)

\* C26: once every datagram received has been processed, the entry of the ip
\* the last datagram came from, if it has one, holds that datagram's source
\* address (the queue is first in, first out: the datagram processed last is
\* the one received last).
C26_LatestAddressWins ==
    (/\ packet_queue = <<>>
     /\ mm_pkt # NoPacket
     /\ clients[mm_pkt.addr[1]] # None)
    => TheVal(clients[mm_pkt.addr[1]]).addr = mm_pkt.addr

----------------------------------------------------------------------------
(* the claim about concurrent tracker requests, under SpecTrackerConc *)

\* C27: whenever no request is being served, the forward and the reverse map
\* agree about the ip the requests were about: ip is a holder of f iff f is in
\* ip's file set.
C27_TrackerAtomic ==
    (\A s \in TSlots : treqs[s] = NoRequest)
    => \A f \in TFiles : (ConcIp \in file_ips[f]) <=> (f \in ip_files[ConcIp])

----------------------------------------------------------------------------
(* the claim about the peer-session lock, under Spec *)

\* C28: no thread of an endpoint is stuck waiting for peer_lock, and peer_lock
\* is free between the steps of the threads (it is not kept by a thread that has
\* sent a datagram and has not returned): a disconnect_peer call and the receive
\* thread's handling of file_complete both run to their end.
C28_NoLockDeadlock ==
    \A e \in Endpoints :
        /\ main[e] # "blocked"
        /\ listener[e] # "blocked"
        /\ peer_lock[e] = "free"

----------------------------------------------------------------------------
(* the claim about inbound completeness, under SpecInbound *)

\* C29: whenever has_all_chunks() is true the expected total is known and every
\* seq in 0..expected-1 has a stored chunk.
C29_CompleteMeansNoGaps ==
    has_all_chunks(cin) =>
        /\ cin.expected_chunks # None
        /\ \A i \in 0..(TheVal(cin.expected_chunks) - 1) : i \in DOMAIN cin.chunks

----------------------------------------------------------------------------
(* the claim about the fetch loop, under SpecFetch *)

====
